---- MODULE Spec2Model ----
(***************************************************************************)
(* A model of the websocket reverse proxy of proxy.go: ServeHTTP (the      *)
(* entry point), the two replicateWebsocketConn relay tasks it starts, and *)
(* the header processing ServeHTTP does before the dial and the upgrade.   *)
(*                                                                         *)
(* Strings are sequences of tokens (<<"bye">>, <<>> is the empty string).  *)
(* The websocket library (gorilla/websocket) and net/http are the          *)
(* environment: a call into them is a nondeterministic choice over the     *)
(* results the call can return.                                            *)
(***************************************************************************)
EXTENDS Integers, Sequences, FiniteSets, TLC

\* ------------------------------------------------------------------ bounds

\* Frames (data, ping, pong) the two peers send during the relay phase.
MaxMsgs == 2

\* The same, in the specification that states fairness.
MaxLiveMsgs == 1

\* Headers in an inbound request or in a backend handshake response.
MaxHeaders == 2

\* Characters in the path of the target URL and of the inbound request's URL.
MaxPathLen == 3

\* ------------------------------------------------- constants of the program

TextMessage == 1
BinaryMessage == 2
CloseMessage == 8
PingMessage == 9
PongMessage == 10

CloseNormalClosure == 1000
CloseNoStatusReceived == 1005
CloseAbnormalClosure == 1006
CloseTLSHandshake == 1015

StatusBadGateway == 502

\* Capacity of the result channels errClient and errBackend.
ChanCap == 1

\* ------------------------------------------------------------------ values

\* The two connections: underlyingConn (client side) and targetConn (backend).
Conns == {"client", "backend"}

\* The two relay tasks, named by the result channel each reports on:
\* errClient is replicateWebsocketConn(underlyingConn, targetConn, errClient),
\* errBackend is replicateWebsocketConn(targetConn, underlyingConn, errBackend).
Dirs == {"errClient", "errBackend"}

\* Both relay tasks started with targetConn as their destination.
dstAlwaysBackend(d) == "backend"

dst(d) == IF d = "errClient" THEN "client" ELSE "backend"

src(d) == IF d = "errClient" THEN "backend" ELSE "client"

\* Errors: no error, a *websocket.CloseError, or any other error.
NoErr == [kind |-> "none", code |-> 0, text |-> <<>>]

CloseError(c, t) == [kind |-> "close", code |-> c, text |-> t]

OtherError(t) == [kind |-> "other", code |-> 0, text |-> t]

\* err.Error(), as fmt.Sprintf("%v", err) prints it.
ErrorString(e) ==
    IF e.kind = "close"
    THEN <<"websocket: close", ToString(e.code)>> \o e.text
    ELSE e.text

\* A close payload: nil, or two bytes of code followed by the text.
NilPayload == [nil |-> TRUE, hasCode |-> FALSE, code |-> 0, text |-> <<>>]

FormatCloseMessage(closeCode, text) ==
    IF closeCode = CloseNoStatusReceived
    THEN [nil |-> FALSE, hasCode |-> FALSE, code |-> 0, text |-> <<>>]
    ELSE [nil |-> FALSE, hasCode |-> TRUE, code |-> closeCode % 65536, text |-> text]

\* A frame: data and ping/pong frames carry a payload, close frames a code and
\* a text.
Frame(t, p) == [mtype |-> t, code |-> 0, payload |-> p]

CloseFrame(m) == [mtype |-> CloseMessage, code |-> m.code, payload |-> m.text]

DataFrames == {Frame(TextMessage, <<"x">>), Frame(BinaryMessage, <<>>)}

ControlFrames == {Frame(PingMessage, <<"x">>), Frame(PongMessage, <<>>)}

\* What a peer's closing or breaking its connection makes the next read return.
PeerErrors ==
    { CloseError(CloseNormalClosure, <<"bye">>),
      CloseError(CloseNoStatusReceived, <<>>),
      CloseError(CloseAbnormalClosure, <<"unexpected EOF">>),
      CloseError(CloseTLSHandshake, <<>>),
      OtherError(<<"connection reset by peer">>) }

ErrClosedConn == OtherError(<<"use of closed network connection">>)

ErrDial == OtherError(<<"bad handshake">>)

ErrHijack == OtherError(<<"hijack failed">>)

ErrRespWrite == OtherError(<<"response write failed">>)

Ev(e, a) == [ev |-> e, arg |-> a]

\* ------------------------------------------------------------------- state

VARIABLES
    cfg,        \* the ReverseProxy's fields
    pcMain,     \* ServeHTTP's position
    panicking,  \* ServeHTTP is unwinding after a runtime panic
    deferred,   \* ServeHTTP's deferred calls, last registered first
    trace,      \* what ServeHTTP has done to its collaborators, in order
    sink,       \* the response sink rw: status written, body bytes written
    recv,       \* the result ServeHTTP received in its select
    connState,  \* each connection: "none", "open" or "closed"
    pcRelay,    \* each relay task's position
    cur,        \* the frame a relay task is forwarding
    rerr,       \* the error a relay task is about to report
    m,          \* the close payload a relay task has selected
    errc,       \* the result channels' buffers
    peerGone,   \* whether each peer has closed or broken its connection
    readLog,    \* the frames each relay task has read, in order
    wire,       \* the frames written to each connection, in order, with writer
    sends,      \* how many values each relay task has sent on its channel
    cause,      \* what ended each relay task's loop: "read" or "forward"
    hpc,        \* ServeHTTP's position in its header processing
    reqHeader,  \* req.Header, the inbound request's header set
    outHeader,  \* outReq.Header
    dialHeader, \* the header set DialContext was called with
    backendHeader, \* resp.Header as the backend sent it
    respHeader, \* resp.Header
    sinkHeader, \* rw.Header()
    upgradeHeader, \* the header set Upgrade was called with
    director,   \* p.Director, with the target URL it has captured
    urls,       \* the url.URL objects, by address
    URL,        \* the URL field of req and of outReq: the address it points to
    entry       \* the inbound request as the caller passed it

vars ==
    << cfg, pcMain, panicking, deferred, trace, sink, recv, connState, pcRelay,
       cur, rerr, m, errc, peerGone, readLog, wire, sends, cause,
       hpc, reqHeader, outHeader, dialHeader, backendHeader, respHeader,
       sinkHeader, upgradeHeader, director, urls, URL, entry >>

urlVars == << director, urls, URL, entry >>

hdrVars ==
    << hpc, reqHeader, outHeader, dialHeader, backendHeader, respHeader,
       sinkHeader, upgradeHeader, director, urls, URL, entry >>

procVars ==
    << cfg, pcMain, panicking, deferred, trace, sink, recv, connState, pcRelay,
       cur, rerr, m, errc, peerGone, readLog, wire, sends, cause >>

mainVars == << pcMain, panicking, deferred, trace, sink, recv >>

relayVars == << pcRelay, cur, rerr, m, errc, readLog, wire, sends, cause >>

NoFrame == Frame(0, <<>>)

\* The ReverseProxy's fields ServeHTTP reads: Logger, ErrorHandler and
\* WebsocketConnectionClosedHook, each nil or set. ServeHTTP never writes them.
\* A field is "unread" until ServeHTTP first reads it; the read then finds it
\* nil or set and every later read finds the same. This reaches the behaviours
\* of a proxy constructed with any of the eight settings.
Fields == {"logger", "errorHandler", "hook"}

\* The settings of cfg a read of the fields fs can find.
Bind(fs) ==
    { c \in [Fields -> {"unread", "nil", "set"}] :
        \A f \in Fields :
            /\ f \in fs => c[f] # "unread"
            /\ (f \notin fs \/ cfg[f] # "unread") => c[f] = cfg[f] }

\* p.logf reads Logger.
ReadLogger == Bind({"logger"})

\* p.logf reads Logger; p.getErrorHandler, reached when logf returns, reads
\* ErrorHandler.
ReadLoggerAndHandler ==
    { c \in Bind({"logger", "errorHandler"}) :
        c.logger = "nil" => c.errorHandler = cfg.errorHandler }

\* ServeHTTP is entered.
ProcInit ==
    /\ cfg = [f \in Fields |-> "unread"]
    /\ pcMain = "dial"
    /\ panicking = FALSE
    /\ deferred = <<>>
    /\ trace = <<>>
    /\ sink = [status |-> 0, body |-> <<>>]
    /\ recv = [from |-> "none", err |-> NoErr]
    /\ connState = [c \in Conns |-> "none"]
    /\ pcRelay = [d \in Dirs |-> "idle"]
    /\ cur = [d \in Dirs |-> NoFrame]
    /\ rerr = [d \in Dirs |-> NoErr]
    /\ m = [d \in Dirs |-> NilPayload]
    /\ errc = [d \in Dirs |-> <<>>]
    /\ peerGone = [c \in Conns |-> FALSE]
    /\ readLog = [d \in Dirs |-> <<>>]
    /\ wire = [c \in Conns |-> <<>>]
    /\ sends = [d \in Dirs |-> 0]
    /\ cause = [d \in Dirs |-> "none"]

NoHeader == [k \in {} |-> <<>>]

\* A url.URL: Scheme and Host are words, Path is a sequence of characters,
\* RawQuery a sequence of tokens.
Url(scheme, host, path, query) ==
    [Scheme |-> scheme, Host |-> host, Path |-> path, RawQuery |-> query]

\* NewSingleHostReverseProxy(target).Director
SingleHost(target) ==
    [kind |-> "singleHost", target |-> target, name |-> "", value |-> <<>>]

\* The target and the inbound URL of the models that leave the URLs alone.
BackendURL == Url("http", "backend", <<"/">>, <<>>)

InboundURL == Url("", "", <<"/">>, <<>>)

\* The inbound request on entry: req.URL points to its url.URL object, and
\* outReq does not exist yet.
UrlEntry(u, h) ==
    /\ urls = [a \in {"u0"} |-> u]
    /\ URL = [req |-> "u0", outReq |-> "nil"]
    /\ entry = [Header |-> h, URL |-> u]

\* The relay model leaves the header sets out.
HdrOff ==
    /\ director = SingleHost(BackendURL)
    /\ UrlEntry(InboundURL, NoHeader)
    /\ hpc = "off"
    /\ reqHeader = NoHeader
    /\ outHeader = NoHeader
    /\ dialHeader = NoHeader
    /\ backendHeader = NoHeader
    /\ respHeader = NoHeader
    /\ sinkHeader = NoHeader
    /\ upgradeHeader = NoHeader

Init == ProcInit /\ HdrOff

\* ----------------------------------------------------- logging and errors

\* p.logf: with no Logger the line goes to the process-wide logger and the
\* call then goes on to p.Logger.Printf on the nil Logger, which panics.
logf(c, format) ==
    IF c.logger = "set"
    THEN [evs |-> <<Ev("Logger.Printf", <<format>>)>>, panic |-> FALSE]
    ELSE [evs |-> <<Ev("log.Printf", <<format>>)>>, panic |-> TRUE]

\* p.defaultErrorHandler: log, then rw.WriteHeader(http.StatusBadGateway).
defaultErrorHandler(c, err) ==
    LET l == logf(c, "http: proxy error: %v")
    IN  IF l.panic
        THEN l
        ELSE [evs |-> l.evs \o <<Ev("rw.WriteHeader", <<ToString(StatusBadGateway)>>)>>,
              panic |-> FALSE]

\* p.getErrorHandler()(rw, outReq, err)
CallErrorHandler(c, err) ==
    IF c.errorHandler = "set"
    THEN [evs |-> <<Ev("ErrorHandler", <<"outReq">> \o ErrorString(err))>>,
          panic |-> FALSE]
    ELSE LET h == defaultErrorHandler(c, err)
         IN  [evs |-> <<Ev("defaultErrorHandler", <<"outReq">> \o ErrorString(err))>> \o h.evs,
              panic |-> h.panic]

\* One logf followed by one error handler call.
LogThenHandle(c, format, err) ==
    LET l == logf(c, format)
        h == CallErrorHandler(c, err)
    IN  IF l.panic THEN l ELSE [evs |-> l.evs \o h.evs, panic |-> h.panic]

\* The effect of a run of events on the response sink.
RECURSIVE ApplySink(_, _)
ApplySink(s, evs) ==
    IF evs = <<>> THEN s
    ELSE LET e == Head(evs)
             s1 == IF e.ev = "rw.WriteHeader" /\ s.status = 0
                   THEN [s EXCEPT !.status = StatusBadGateway]
                   ELSE IF e.ev = "rw.Write"
                   THEN [s EXCEPT !.body = s.body \o e.arg]
                   ELSE s
         IN  ApplySink(s1, Tail(evs))

\* ServeHTTP does evs and then returns, or panics.
Finish(evs, panic) ==
    /\ trace' = trace \o evs
    /\ sink' = ApplySink(sink, evs)
    /\ panicking' = panic
    /\ pcMain' = "unwind"

\* ------------------------------------------------------------- ServeHTTP

\* dialer.DialContext(...) and the branch on its result.
Dial ==
    /\ pcMain = "dial"
    /\ \E outcome \in {"ok", "hard", "soft"} :
        /\ pcMain' = CASE outcome = "ok" -> "upgrade"
                       [] outcome = "hard" -> "hardFail"
                       [] outcome = "soft" -> "softFail"
        /\ connState' = IF outcome = "ok"
                        THEN [connState EXCEPT !["backend"] = "open"]
                        ELSE connState
        /\ trace' = trace \o <<Ev("DialContext", <<outcome>>)>>
    /\ UNCHANGED << cfg, panicking, deferred, sink, recv, relayVars, peerGone >>
    /\ UNCHANGED hdrVars

\* The two statements after the return, had they come before it.
WriteErrorAfterHardFailureHandler(err) == <<Ev("rw.Write", ErrorString(err))>>

\* What the hard-failure branch does after the error handler has returned:
\* the return statement comes first, so the two statements after it never run.
AfterHardFailureHandler(err) == <<>>

\* err != nil, resp == nil
DialHardFailure ==
    /\ pcMain = "hardFail"
    /\ \E c \in ReadLoggerAndHandler :
       LET r == LogThenHandle(c, "websocket: Error dialing %q: %v", ErrDial)
       IN  /\ cfg' = c
           /\ IF r.panic
              THEN Finish(r.evs, TRUE)
              ELSE Finish(r.evs \o AfterHardFailureHandler(ErrDial), FALSE)
    /\ UNCHANGED << deferred, recv, connState, relayVars, peerGone >>
    /\ UNCHANGED hdrVars

\* err != nil, resp != nil: log, then probe the sink for http.Hijacker.
DialSoftFailure ==
    /\ pcMain = "softFail"
    /\ \E isHijacker \in BOOLEAN :
       \E c \in (IF isHijacker THEN ReadLogger ELSE ReadLoggerAndHandler) :
       LET l == logf(c, "websocket: Error dialing %q: %v with resp: %d %s")
           r == LogThenHandle(c, "websocket: %s can not be hijack", ErrDial)
       IN  /\ cfg' = c
           /\ IF l.panic
              THEN Finish(l.evs, TRUE)
              ELSE IF ~isHijacker
              THEN Finish(l.evs \o r.evs, r.panic)
              ELSE /\ trace' = trace \o l.evs
                   /\ pcMain' = "hijack"
                   /\ UNCHANGED << sink, panicking >>
    /\ UNCHANGED << deferred, recv, connState, relayVars, peerGone >>
    /\ UNCHANGED hdrVars

\* The hijacked stream left open.
NothingDeferredAfterHijack == <<>>

\* What is deferred once the hijack has succeeded.
DeferredAfterHijack == <<"conn.Close">>

\* hijacker.Hijack(), and defer conn.Close() when it succeeds.
Hijack ==
    /\ pcMain = "hijack"
    /\ \E ok \in BOOLEAN :
        IF ok
        THEN /\ trace' = trace \o <<Ev("Hijack", <<"ok">>)>>
             /\ deferred' = DeferredAfterHijack \o deferred
             /\ pcMain' = "respWrite"
             /\ UNCHANGED << cfg, sink, panicking >>
        ELSE \E c \in ReadLoggerAndHandler :
             LET r == LogThenHandle(c, "websocket: Failed to hijack responseWriter", ErrHijack)
             IN  /\ cfg' = c
                 /\ Finish(<<Ev("Hijack", <<"error">>)>> \o r.evs, r.panic)
                 /\ UNCHANGED deferred
    /\ UNCHANGED << recv, connState, relayVars, peerGone >>
    /\ UNCHANGED hdrVars

\* resp.Write(conn)
RespWrite ==
    /\ pcMain = "respWrite"
    /\ \E ok \in BOOLEAN :
        IF ok
        THEN /\ Finish(<<Ev("resp.Write", <<"ok">>)>>, FALSE)
             /\ UNCHANGED cfg
        ELSE \E c \in ReadLoggerAndHandler :
             LET r == LogThenHandle(c, "websocket: Failed to forward response", ErrRespWrite)
             IN  /\ cfg' = c
                 /\ Finish(<<Ev("resp.Write", <<"error">>)>> \o r.evs, r.panic)
    /\ UNCHANGED << deferred, recv, connState, relayVars, peerGone >>
    /\ UNCHANGED hdrVars

\* The teardown written after the select instead of being deferred: a panic
\* on the way out skips it.
NothingDeferredAfterUpgrade == <<>>

\* What is deferred once the upgrade has succeeded.
DeferredAfterUpgrade == <<"teardown">>

\* upgrader.Upgrade(rw, req, resp.Header), and the deferred teardown when it
\* succeeds.
Upgrade ==
    /\ pcMain = "upgrade"
    /\ \E ok \in BOOLEAN :
        IF ok
        THEN /\ trace' = trace \o <<Ev("Upgrade", <<"ok">>)>>
             /\ connState' = [connState EXCEPT !["client"] = "open"]
             /\ deferred' = DeferredAfterUpgrade \o deferred
             /\ pcMain' = "spawn"
             /\ UNCHANGED << cfg, sink, panicking >>
        ELSE \E c \in ReadLogger :
             LET l == logf(c, "websocket: Error while upgrading connection : %v")
             IN  /\ cfg' = c
                 /\ Finish(<<Ev("Upgrade", <<"error">>)>> \o l.evs, l.panic)
                 /\ UNCHANGED << deferred, connState >>
    /\ UNCHANGED << recv, relayVars, peerGone >>
    /\ UNCHANGED hdrVars

\* make both channels, start both relay tasks.
Spawn ==
    /\ pcMain = "spawn"
    /\ pcRelay' = [d \in Dirs |-> "read"]
    /\ pcMain' = "select"
    /\ UNCHANGED << cfg, panicking, deferred, trace, sink, recv, connState, cur,
                    rerr, m, errc, peerGone, readLog, wire, sends, cause >>
    /\ UNCHANGED hdrVars

\* select { case err = <-errClient: ... case err = <-errBackend: ... }
Select ==
    /\ pcMain = "select"
    /\ \E d \in Dirs :
        /\ errc[d] # <<>>
        /\ recv' = [from |-> d, err |-> Head(errc[d])]
        /\ errc' = [errc EXCEPT ![d] = Tail(errc[d])]
    /\ pcMain' = "log"
    /\ UNCHANGED << cfg, panicking, deferred, trace, sink, connState, pcRelay,
                    cur, rerr, m, peerGone, readLog, wire, sends, cause >>
    /\ UNCHANGED hdrVars

\* The condition turned round: everything but an abnormal closure.
ShouldLogUnlessAbnormal(err) == ~(err.kind = "close" /\ err.code = CloseAbnormalClosure)

\* The condition under which the received error is logged.
ShouldLog(err) == err.kind # "close" \/ err.code = CloseAbnormalClosure

\* The format the select chose for the direction it received from.
Message(d) ==
    IF d = "errClient"
    THEN "websocket: Error when copying from backend to client: %v"
    ELSE "websocket: Error when copying from client to backend: %v"

\* if e, ok := err.(*websocket.CloseError); !ok || e.Code == ... { p.logf }
LogResult ==
    /\ pcMain = "log"
    /\ IF ShouldLog(recv.err)
       THEN \E c \in ReadLogger :
            LET l == logf(c, Message(recv.from))
            IN  /\ cfg' = c
                /\ Finish(<<[l.evs[1] EXCEPT !.arg = @ \o ErrorString(recv.err)]>>, l.panic)
       ELSE /\ Finish(<<>>, FALSE)
            /\ UNCHANGED cfg
    /\ UNCHANGED << deferred, recv, connState, relayVars, peerGone >>
    /\ UNCHANGED hdrVars

\* The deferred conn.Close() of the hijacked stream.
DeferredConnClose ==
    /\ pcMain = "unwind"
    /\ deferred # <<>>
    /\ Head(deferred) = "conn.Close"
    /\ trace' = trace \o <<Ev("conn.Close", <<>>)>>
    /\ deferred' = Tail(deferred)
    /\ UNCHANGED << cfg, pcMain, panicking, sink, recv, connState, relayVars, peerGone >>
    /\ UNCHANGED hdrVars

\* The teardown with the hook called before the backend is closed.
TeardownNextHookEarly(pc) ==
    CASE pc = "unwind" -> "hook"
      [] pc = "hook" -> "closeBackend"
      [] pc = "closeBackend" -> "unwind"

\* The order of the deferred teardown's three statements.
TeardownNext(pc) ==
    CASE pc = "unwind" -> "closeBackend"
      [] pc = "closeBackend" -> "hook"
      [] pc = "hook" -> "unwind"

\* underlyingConn.Close()
CloseClient ==
    /\ pcMain = "unwind"
    /\ deferred # <<>>
    /\ Head(deferred) = "teardown"
    /\ connState' = [connState EXCEPT !["client"] = "closed"]
    /\ trace' = trace \o <<Ev("underlyingConn.Close", <<>>)>>
    /\ pcMain' = TeardownNext(pcMain)
    /\ UNCHANGED << cfg, panicking, deferred, sink, recv, relayVars, peerGone >>
    /\ UNCHANGED hdrVars

\* targetConn.Close()
CloseBackend ==
    /\ pcMain = "closeBackend"
    /\ connState' = [connState EXCEPT !["backend"] = "closed"]
    /\ trace' = trace \o <<Ev("targetConn.Close", <<>>)>>
    /\ pcMain' = TeardownNext(pcMain)
    /\ UNCHANGED << cfg, panicking, deferred, sink, recv, relayVars, peerGone >>
    /\ UNCHANGED hdrVars

\* The hook call, if any, that ends the teardown.
HookCalls(c) ==
    IF c.hook = "set"
    THEN <<Ev("WebsocketConnectionClosedHook", <<"req", "underlyingConn.UnderlyingConn()">>)>>
    ELSE <<>>

\* if p.WebsocketConnectionClosedHook != nil { ...(req, underlyingConn.UnderlyingConn()) }
Hook ==
    /\ pcMain = "hook"
    /\ \E c \in Bind({"hook"}) :
        /\ cfg' = c
        /\ trace' = trace \o HookCalls(c)
    /\ deferred' = Tail(deferred)
    /\ pcMain' = TeardownNext(pcMain)
    /\ UNCHANGED << panicking, sink, recv, connState, relayVars, peerGone >>
    /\ UNCHANGED hdrVars

\* ServeHTTP has returned to its caller, or its panic has propagated to it:
\* nothing is left to run.
Exited == pcMain = "unwind" /\ deferred = <<>>

\* --------------------------------------------------- replicateWebsocketConn

\* The selection without the test for the TLS handshake code.
ClosePayloadNoTLSTest(e) ==
    LET default == FormatCloseMessage(CloseNormalClosure, ErrorString(e))
    IN  IF e.kind = "close"
        THEN IF e.code # CloseNoStatusReceived
             THEN IF e.code # CloseAbnormalClosure
                  THEN FormatCloseMessage(e.code, e.text)
                  ELSE NilPayload
             ELSE default
        ELSE default

\* The close payload selected for the error a read returned.
ClosePayload(e) ==
    LET default == FormatCloseMessage(CloseNormalClosure, ErrorString(e))
    IN  IF e.kind = "close"
        THEN IF e.code # CloseNoStatusReceived
             THEN IF e.code # CloseAbnormalClosure /\ e.code # CloseTLSHandshake
                  THEN FormatCloseMessage(e.code, e.text)
                  ELSE NilPayload
             ELSE default
        ELSE default

IsData(f) == f.mtype \in {TextMessage, BinaryMessage}

IsControl(f) == f.mtype \in {PingMessage, PongMessage}

\* Every frame forwarded as a text message.
ForwardedAsText(f) == Frame(TextMessage, f.payload)

\* The ping handler forwarding with the pong handler's message type.
ForwardedPingAsPong(f) ==
    Frame(IF f.mtype = PingMessage THEN PongMessage ELSE f.mtype, f.payload)

\* The frame forward(messageType, reader) writes for the frame read.
Forwarded(f) == Frame(f.mtype, f.payload)

\* src.NextReader() returns the next data message, or reads a ping or a pong
\* and calls the handler installed for it.
ReadFrameUpTo(d, n) ==
    /\ pcRelay[d] = "read"
    /\ ~peerGone[src(d)]
    /\ connState[src(d)] = "open"
    /\ Len(readLog["errClient"]) + Len(readLog["errBackend"]) < n
    /\ \E f \in DataFrames \cup ControlFrames :
        /\ readLog' = [readLog EXCEPT ![d] = Append(@, f)]
        /\ cur' = [cur EXCEPT ![d] = Forwarded(f)]
    /\ pcRelay' = [pcRelay EXCEPT ![d] = "forward"]
    /\ UNCHANGED << cfg, mainVars, connState, rerr, m, errc, peerGone, wire, sends, cause >>

ReadFrame(d) == ReadFrameUpTo(d, MaxMsgs) /\ UNCHANGED hdrVars

ReadFrameLive(d) == ReadFrameUpTo(d, MaxLiveMsgs) /\ UNCHANGED hdrVars

\* The errors the next read of a connection can fail with.
ReadErrors(c) ==
    (IF peerGone[c] THEN PeerErrors ELSE {})
        \cup (IF connState[c] = "closed" THEN {ErrClosedConn} ELSE {})

\* src.NextReader() fails: select the close payload.
ReadError(d) ==
    /\ pcRelay[d] = "read"
    /\ \E e \in ReadErrors(src(d)) :
        /\ rerr' = [rerr EXCEPT ![d] = e]
        /\ m' = [m EXCEPT ![d] = ClosePayload(e)]
    /\ cause' = [cause EXCEPT ![d] = "read"]
    /\ pcRelay' = [pcRelay EXCEPT ![d] = "report"]
    /\ UNCHANGED << cfg, mainVars, connState, cur, errc, peerGone, readLog, wire, sends >>
    /\ UNCHANGED hdrVars

\* The loop left on a forward error without the send on errc.
ForwardFailedNoReport(d, e) ==
    IF IsData(cur[d])
    THEN /\ rerr' = [rerr EXCEPT ![d] = e]
         /\ m' = [m EXCEPT ![d] = NilPayload]
         /\ cause' = [cause EXCEPT ![d] = "forward"]
         /\ pcRelay' = [pcRelay EXCEPT ![d] = "done"]
    ELSE IF IsControl(cur[d])
    THEN /\ rerr' = [rerr EXCEPT ![d] = e]
         /\ m' = [m EXCEPT ![d] = ClosePayload(e)]
         /\ cause' = [cause EXCEPT ![d] = "read"]
         /\ pcRelay' = [pcRelay EXCEPT ![d] = "report"]
    ELSE /\ pcRelay' = [pcRelay EXCEPT ![d] = "done"]
         /\ UNCHANGED << rerr, m, cause >>

\* A forward error of a data message given the close translation of a read
\* error.
ForwardFailedWithCloseFrame(d, e) ==
    IF IsData(cur[d]) \/ IsControl(cur[d])
    THEN /\ rerr' = [rerr EXCEPT ![d] = e]
         /\ m' = [m EXCEPT ![d] = ClosePayload(e)]
         /\ cause' = [cause EXCEPT ![d] = IF IsData(cur[d]) THEN "forward" ELSE "read"]
         /\ pcRelay' = [pcRelay EXCEPT ![d] = "report"]
    ELSE /\ pcRelay' = [pcRelay EXCEPT ![d] = "done"]
         /\ UNCHANGED << rerr, m, cause >>

\* Where a relay task goes when forward returns an error: the error of a data
\* message ends the loop, the error of a ping or pong handler comes back as
\* the read's error, the error of the close frame is dropped.
ForwardFailed(d, e) ==
    IF IsData(cur[d])
    THEN /\ rerr' = [rerr EXCEPT ![d] = e]
         /\ m' = [m EXCEPT ![d] = NilPayload]
         /\ cause' = [cause EXCEPT ![d] = "forward"]
         /\ pcRelay' = [pcRelay EXCEPT ![d] = "report"]
    ELSE IF IsControl(cur[d])
    THEN /\ rerr' = [rerr EXCEPT ![d] = e]
         /\ m' = [m EXCEPT ![d] = ClosePayload(e)]
         /\ cause' = [cause EXCEPT ![d] = "read"]
         /\ pcRelay' = [pcRelay EXCEPT ![d] = "report"]
    ELSE /\ pcRelay' = [pcRelay EXCEPT ![d] = "done"]
         /\ UNCHANGED << rerr, m, cause >>

\* Where a relay task goes when forward returns nil.
ForwardDone(d) == IF cur[d].mtype = CloseMessage THEN "done" ELSE "read"

\* The error forward returns when dst.NextWriter, io.Copy or writer.Close
\* fails.
ForwardErrors ==
    { OtherError(<<"NextWriter failed">>),
      OtherError(<<"io.Copy failed">>),
      OtherError(<<"writer.Close failed">>) }

\* forward(messageType, reader): NextWriter, io.Copy, writer.Close. The frame
\* is on the destination when all three return nil, which writer.Close cannot
\* do once the destination has been closed.
Forward(d) ==
    /\ pcRelay[d] = "forward"
    /\ \/ /\ connState[dst(d)] # "closed"
          /\ wire' = [wire EXCEPT ![dst(d)] = Append(@, [frame |-> cur[d], by |-> d])]
          /\ pcRelay' = [pcRelay EXCEPT ![d] = ForwardDone(d)]
          /\ UNCHANGED << rerr, m, cause >>
       \/ /\ \E e \in ForwardErrors : ForwardFailed(d, e)
          /\ UNCHANGED wire
    /\ UNCHANGED << cfg, mainVars, connState, cur, errc, peerGone, readLog, sends >>
    /\ UNCHANGED hdrVars

\* errc <- err, and then the close frame if one was selected.
Report(d) ==
    /\ pcRelay[d] = "report"
    /\ Len(errc[d]) < ChanCap
    /\ errc' = [errc EXCEPT ![d] = Append(@, rerr[d])]
    /\ sends' = [sends EXCEPT ![d] = @ + 1]
    /\ IF m[d].nil
       THEN /\ pcRelay' = [pcRelay EXCEPT ![d] = "done"]
            /\ UNCHANGED cur
       ELSE /\ pcRelay' = [pcRelay EXCEPT ![d] = "forward"]
            /\ cur' = [cur EXCEPT ![d] = CloseFrame(m[d])]
    /\ UNCHANGED << cfg, mainVars, connState, rerr, m, peerGone, readLog, wire, cause >>
    /\ UNCHANGED hdrVars

\* ------------------------------------------------------------- environment

\* A peer closes or breaks its connection while the relay is running.
PeerClose(c) ==
    /\ pcRelay["errClient"] # "idle"
    /\ connState[c] = "open"
    /\ ~peerGone[c]
    /\ peerGone' = [peerGone EXCEPT ![c] = TRUE]
    /\ UNCHANGED << cfg, mainVars, connState, relayVars >>
    /\ UNCHANGED hdrVars

\* ------------------------------------------------------------ specification

\* The steps of a relay task that need nothing from its peer.
RelayRuns(d) == ReadError(d) \/ Forward(d) \/ Report(d)

Main ==
    \/ Dial \/ DialHardFailure \/ DialSoftFailure \/ Hijack \/ RespWrite
    \/ Upgrade \/ Spawn \/ Select \/ LogResult
    \/ DeferredConnClose \/ CloseClient \/ CloseBackend \/ Hook

Relay(d) ==
    \/ ReadFrame(d) \/ ReadError(d)
    \/ Forward(d) \/ Report(d)

Next ==
    \/ Main
    \/ \E d \in Dirs : Relay(d)
    \/ \E c \in Conns : PeerClose(c)

Spec == Init /\ [][Next]_vars

\* The scheduler runs every task that can take a step. Whether a peer sends
\* a frame or closes its connection is up to the peer.
FairNext ==
    \/ Main
    \/ \E d \in Dirs : ReadFrameLive(d) \/ RelayRuns(d)
    \/ \E c \in Conns : PeerClose(c)

FairSpec ==
    /\ Init /\ [][FairNext]_vars
    /\ WF_vars(Main)
    /\ \A d \in Dirs : WF_vars(RelayRuns(d))

\* The relay phase alone: the dial and the upgrade have succeeded, the
\* teardown is deferred, and ServeHTTP is about to start the two relay tasks.
RelayInit ==
    /\ cfg = [f \in Fields |-> "unread"]
    /\ pcMain = "spawn"
    /\ panicking = FALSE
    /\ deferred = DeferredAfterUpgrade
    /\ trace = <<Ev("DialContext", <<"ok">>), Ev("Upgrade", <<"ok">>)>>
    /\ sink = [status |-> 0, body |-> <<>>]
    /\ recv = [from |-> "none", err |-> NoErr]
    /\ connState = [c \in Conns |-> "open"]
    /\ pcRelay = [d \in Dirs |-> "idle"]
    /\ cur = [d \in Dirs |-> NoFrame]
    /\ rerr = [d \in Dirs |-> NoErr]
    /\ m = [d \in Dirs |-> NilPayload]
    /\ errc = [d \in Dirs |-> <<>>]
    /\ peerGone = [c \in Conns |-> FALSE]
    /\ readLog = [d \in Dirs |-> <<>>]
    /\ wire = [c \in Conns |-> <<>>]
    /\ sends = [d \in Dirs |-> 0]
    /\ cause = [d \in Dirs |-> "none"]
    /\ HdrOff

RelayNext ==
    \/ Spawn \/ Select \/ LogResult \/ CloseClient \/ CloseBackend \/ Hook
    \/ \E d \in Dirs : Relay(d)
    \/ \E c \in Conns : PeerClose(c)

RelaySpec == RelayInit /\ [][RelayNext]_vars

\* ----------------------------------------------------------------- headers

\* A header set maps each name it holds to the sequence of its values. A value
\* is a string: a sequence of tokens, each a word, "," or " ".

hopHeaders ==
    << "Connection", "Keep-Alive", "Proxy-Authenticate", "Proxy-Authorization",
       "Te", "Trailers", "Transfer-Encoding", "Upgrade", "Sec-Websocket-Accept",
       "Sec-Websocket-Extensions", "Sec-Websocket-Key", "Sec-Websocket-Version" >>

WebsocketDialHeaders ==
    << "Upgrade", "Connection", "Sec-Websocket-Key", "Sec-Websocket-Version",
       "Sec-Websocket-Extensions", "Sec-Websocket-Accept" >>

Range(seq) == {seq[i] : i \in 1..Len(seq)}

\* http.CanonicalHeaderKey on the words of the model.
CanonicalHeaderKey(w) ==
    CASE w = "keep-alive" -> "Keep-Alive"
      [] w = "x-custom" -> "X-Custom"
      [] w = "upgrade" -> "Upgrade"
      [] w = "TE" -> "Te"
      [] OTHER -> w

\* h.Get(key): the first value of the canonical key, "" when there is none.
Get(h, key) ==
    LET k == CanonicalHeaderKey(key)
    IN  IF k \in DOMAIN h /\ Len(h[k]) > 0 THEN h[k][1] ELSE <<>>

\* h.Del(key)
Del(h, key) == [k \in DOMAIN h \ {CanonicalHeaderKey(key)} |-> h[k]]

\* h.Add(key, value)
Add(h, key, value) ==
    LET k == CanonicalHeaderKey(key)
    IN  [x \in DOMAIN h \cup {k} |->
            IF x = k
            THEN (IF k \in DOMAIN h THEN h[k] ELSE <<>>) \o <<value>>
            ELSE h[x]]

\* h.Set(key, value)
Set(h, key, value) ==
    LET k == CanonicalHeaderKey(key)
    IN  [x \in DOMAIN h \cup {k} |-> IF x = k THEN <<value>> ELSE h[x]]

RECURSIVE AddAll(_, _, _)
AddAll(h, key, values) ==
    IF values = <<>> THEN h
    ELSE AddAll(Add(h, key, Head(values)), key, Tail(values))

\* copyHeader(dst, src): dst.Add(k, v) for every value v of every key k of src.
\* The keys of src are canonical, so the order of the keys does not matter.
RECURSIVE CopyKeys(_, _, _)
CopyKeys(to, from, keys) ==
    IF keys = {} THEN to
    ELSE LET k == CHOOSE x \in keys : TRUE
         IN  CopyKeys(AddAll(to, k, from[k]), from, keys \ {k})

copyHeader(to, from) == CopyKeys(to, from, DOMAIN from)

\* strings.Split(s, ","): the strings between the commas of s.
RECURSIVE SplitFrom(_, _, _)
SplitFrom(s, i, field) ==
    IF i > Len(s) THEN <<field>>
    ELSE IF s[i] = "," THEN <<field>> \o SplitFrom(s, i + 1, <<>>)
    ELSE SplitFrom(s, i + 1, Append(field, s[i]))

Split(s) == SplitFrom(s, 1, <<>>)

\* strings.TrimSpace(f)
RECURSIVE TrimSpace(_)
TrimSpace(f) ==
    IF f = <<>> THEN f
    ELSE IF Head(f) = " " THEN TrimSpace(Tail(f))
    ELSE IF f[Len(f)] = " " THEN TrimSpace(SubSeq(f, 1, Len(f) - 1))
    ELSE f

\* h.Del(f) for a string f: a single word is a header name; a string of
\* several tokens is the name of no header of the model.
DelField(h, f) == IF Len(f) = 1 THEN Del(h, f[1]) ELSE h

RECURSIVE DelFields(_, _)
DelFields(h, fields) ==
    IF fields = <<>> THEN h
    ELSE LET f == TrimSpace(Head(fields))
         IN  DelFields(IF f # <<>> THEN DelField(h, f) ELSE h, Tail(fields))

\* removeConnectionHeaders(h)
removeConnectionHeaders(h) ==
    LET c == Get(h, "Connection")
    IN  IF c # <<>> THEN DelFields(h, Split(c)) ELSE h

\* for _, h := range list { hv := header.Get(h); if hv == "" { continue };
\* header.Del(h) }
RECURSIVE StripHeaders(_, _)
StripHeaders(h, list) ==
    IF list = <<>> THEN h
    ELSE LET hv == Get(h, Head(list))
         IN  StripHeaders(IF hv = <<>> THEN h ELSE Del(h, Head(list)), Tail(list))

\* The director NewSingleHostReverseProxy builds, on the header set: an
\* explicit empty User-Agent when the request has none.
singleHostDirector(h) ==
    IF "User-Agent" \notin DOMAIN h THEN Set(h, "User-Agent", <<>>) ELSE h

HasSuffixSlash(a) == a # <<>> /\ a[Len(a)] = "/"

HasPrefixSlash(b) == b # <<>> /\ b[1] = "/"

\* The join that keeps both slashes when both sides have one.
singleJoiningSlashKeepBoth(a, b) ==
    IF ~HasSuffixSlash(a) /\ ~HasPrefixSlash(b) THEN a \o <<"/">> \o b ELSE a \o b

\* singleJoiningSlash(a, b)
singleJoiningSlash(a, b) ==
    LET aslash == HasSuffixSlash(a)
        bslash == HasPrefixSlash(b)
    IN  CASE aslash /\ bslash -> a \o Tail(b)
          [] ~aslash /\ ~bslash -> a \o <<"/">> \o b
          [] OTHER -> a \o b

\* The query the director builds from the target's query and the request's.
MergeQuery(targetQuery, rawQuery) ==
    IF targetQuery = <<>> \/ rawQuery = <<>>
    THEN targetQuery \o rawQuery
    ELSE targetQuery \o <<"&">> \o rawQuery

\* switch req.URL.Scheme { case "https": "wss"; case "http": "ws" }
WsScheme(scheme) ==
    CASE scheme = "https" -> "wss"
      [] scheme = "http" -> "ws"
      [] OTHER -> scheme

\* The director NewSingleHostReverseProxy builds, on the url.URL object that
\* req.URL points to.
singleHostDirectorURL(target, u) ==
    Url(WsScheme(target.Scheme), target.Host,
        singleJoiningSlash(target.Path, u.Path),
        MergeQuery(target.RawQuery, u.RawQuery))

\* The header names of the model's requests and responses.
HeaderNames == Range(hopHeaders) \cup {"User-Agent", "X-Custom"}

\* The values of a header: one value, one empty value, an empty first value
\* followed by another, several values.
HeaderValues ==
    { <<<<"v">>>>, <<<<>>>>, <<<<>>, <<"v">>>>, <<<<"v">>, <<"w">>>> }

\* The values of a Connection header: lists of directives.
ConnectionValues ==
    { <<<<"Upgrade">>>>,
      <<<<"keep-alive", ",", " ", "X-Custom">>>>,
      <<<<" ", "x-custom", " ", ",", ",", "TE">>>>,
      <<<<"X-Custom", " ", "Te">>>>,
      <<<<"Upgrade">>, <<"X-Custom">>>>,
      <<<<>>, <<"X-Custom">>>>,
      <<<<>>>> }

\* The header sets of at most n headers with names in names.
HeaderSets(names, n) ==
    UNION { [S -> HeaderValues] : S \in {T \in SUBSET names : Cardinality(T) <= n} }

\* The same, with or without a Connection header listing directives.
WithConnection(hs) ==
    hs \cup { [k \in DOMAIN h \cup {"Connection"} |->
                  IF k = "Connection" THEN c ELSE h[k]] :
              h \in hs, c \in ConnectionValues }

\* The directors: the single-host one, or one of the caller's that adds a
\* header.
Directors ==
    {SingleHost(BackendURL)}
        \cup { [kind |-> "custom", target |-> BackendURL, name |-> n, value |-> v] :
               n \in Range(WebsocketDialHeaders), v \in {<<>>, <<"v">>} }

\* The header sets already on the response sink.
SinkHeaders ==
    { NoHeader,
      [k \in {"X-Custom"} |-> <<<<"s">>>>],
      [k \in {"Keep-Alive", "Set-Cookie"} |-> <<<<"s">>, <<"t">>>>] }

\* ServeHTTP is entered with an inbound request, or has dialled and holds the
\* backend's handshake response.
HdrInit ==
    /\ dialHeader = NoHeader
    /\ outHeader = NoHeader
    /\ upgradeHeader = NoHeader
    /\ \/ /\ hpc = "copy"
          /\ reqHeader \in HeaderSets(HeaderNames, MaxHeaders)
          /\ director \in Directors
          /\ backendHeader = NoHeader
          /\ sinkHeader = NoHeader
       \/ /\ hpc = "removeConnection"
          /\ reqHeader = NoHeader
          /\ director = SingleHost(BackendURL)
          /\ backendHeader \in
                 WithConnection(HeaderSets(HeaderNames \ {"Connection"}, MaxHeaders - 1))
          /\ sinkHeader \in SinkHeaders
    /\ respHeader = backendHeader
    /\ UrlEntry(InboundURL, reqHeader)

\* outReq := new(http.Request); *outReq = *req: every field of req is copied,
\* the pointer req.URL among them. Then outReq.Header = make(http.Header);
\* copyHeader(outReq.Header, req.Header).
BuildOutReq ==
    /\ hpc = "copy"
    /\ URL' = [URL EXCEPT !.outReq = URL.req]
    /\ outHeader' = copyHeader(NoHeader, reqHeader)
    /\ hpc' = "director"
    /\ UNCHANGED << reqHeader, dialHeader, backendHeader, respHeader, sinkHeader,
                    upgradeHeader, director, urls, entry, procVars >>

\* p.Director(outReq): the single-host director rewrites the object
\* outReq.URL points to and outReq.Header; a director of the caller's adds a
\* header.
Director ==
    /\ hpc = "director"
    /\ IF director.kind = "singleHost"
       THEN /\ urls' = [urls EXCEPT ![URL.outReq] =
                            singleHostDirectorURL(director.target, @)]
            /\ outHeader' = singleHostDirector(outHeader)
       ELSE /\ outHeader' = Add(outHeader, director.name, director.value)
            /\ UNCHANGED urls
    /\ hpc' = "stripDial"
    /\ UNCHANGED << reqHeader, dialHeader, backendHeader, respHeader, sinkHeader,
                    upgradeHeader, director, URL, entry, procVars >>

\* for _, h := range WebsocketDialHeaders { ... outReq.Header.Del(h) }
StripDialHeaders ==
    /\ hpc = "stripDial"
    /\ outHeader' = StripHeaders(outHeader, WebsocketDialHeaders)
    /\ hpc' = "dial"
    /\ UNCHANGED << reqHeader, dialHeader, backendHeader, respHeader, sinkHeader,
                    upgradeHeader, procVars, urlVars >>

\* dialer.DialContext(outReq.Context(), outReq.URL.String(), outReq.Header)
DialCall ==
    /\ hpc = "dial"
    /\ dialHeader' = outHeader
    /\ hpc' = "dialed"
    /\ UNCHANGED << reqHeader, outHeader, backendHeader, respHeader, sinkHeader,
                    upgradeHeader, procVars, urlVars >>

\* removeConnectionHeaders(resp.Header)
RemoveConnectionHeaders ==
    /\ hpc = "removeConnection"
    /\ respHeader' = removeConnectionHeaders(respHeader)
    /\ hpc' = "stripHop"
    /\ UNCHANGED << reqHeader, outHeader, dialHeader, backendHeader, sinkHeader,
                    upgradeHeader, procVars, urlVars >>

\* for _, h := range hopHeaders { ... resp.Header.Del(h) }
StripHopHeaders ==
    /\ hpc = "stripHop"
    /\ respHeader' = StripHeaders(respHeader, hopHeaders)
    /\ hpc' = "merge"
    /\ UNCHANGED << reqHeader, outHeader, dialHeader, backendHeader, sinkHeader,
                    upgradeHeader, procVars, urlVars >>

\* copyHeader(resp.Header, rw.Header())
MergeSinkHeaders ==
    /\ hpc = "merge"
    /\ respHeader' = copyHeader(respHeader, sinkHeader)
    /\ hpc' = "upgrade"
    /\ UNCHANGED << reqHeader, outHeader, dialHeader, backendHeader, sinkHeader,
                    upgradeHeader, procVars, urlVars >>

\* upgrader.Upgrade(rw, req, resp.Header)
UpgradeCall ==
    /\ hpc = "upgrade"
    /\ upgradeHeader' = respHeader
    /\ hpc' = "upgraded"
    /\ UNCHANGED << reqHeader, outHeader, dialHeader, backendHeader, respHeader,
                    sinkHeader, procVars, urlVars >>

HeaderNext ==
    \/ BuildOutReq \/ Director \/ StripDialHeaders \/ DialCall
    \/ RemoveConnectionHeaders \/ StripHopHeaders \/ MergeSinkHeaders \/ UpgradeCall

HeaderInit == ProcInit /\ HdrInit

HeaderSpec == HeaderInit /\ [][HeaderNext]_vars

\* --------------------------------------------------------------------- URLs

\* The strings of at most n characters over the alphabet chars.
RECURSIVE Strings(_, _)
Strings(chars, n) ==
    IF n = 0 THEN {<<>>}
    ELSE LET shorter == Strings(chars, n - 1)
         IN  shorter \cup {Append(t, c) : t \in shorter, c \in chars}

\* The targets NewSingleHostReverseProxy is given.
Targets ==
    { Url(scheme, "backend", path, query) :
        scheme \in {"http", "https", "ws"},
        path \in Strings({"/", "a"}, MaxPathLen),
        query \in {<<>>, <<"a=1">>} }

\* The URLs of the inbound requests: a server's request carries a path and a
\* query.
RequestURLs ==
    { Url("", "", path, query) :
        path \in Strings({"/", "b"}, MaxPathLen),
        query \in {<<>>, <<"b=2">>} }

\* ServeHTTP of a single-host proxy is entered with an inbound request.
UrlInit ==
    /\ hpc = "copy"
    /\ director \in {SingleHost(t) : t \in Targets}
    /\ reqHeader \in {NoHeader, [k \in {"X-Custom"} |-> <<<<"v">>>>]}
    /\ \E u \in RequestURLs : UrlEntry(u, reqHeader)
    /\ outHeader = NoHeader
    /\ dialHeader = NoHeader
    /\ backendHeader = NoHeader
    /\ respHeader = NoHeader
    /\ sinkHeader = NoHeader
    /\ upgradeHeader = NoHeader

URLNext == BuildOutReq \/ Director \/ StripDialHeaders \/ DialCall

URLInit == ProcInit /\ UrlInit

URLSpec == URLInit /\ [][URLNext]_vars

\* ------------------------------------------------------------------ claims

IsPrefix(s, t) == Len(s) <= Len(t) /\ SubSeq(t, 1, Len(s)) = s

\* The events of the trace whose names are in names, in order.
Events(names) == SelectSeq(trace, LAMBDA e : e.ev \in names)

Happened(e) == \E i \in 1..Len(trace) : trace[i] = e

Upgraded == Happened(Ev("Upgrade", <<"ok">>))

HardFailure == Happened(Ev("DialContext", <<"hard">>))

SoftFailure == Happened(Ev("DialContext", <<"soft">>))

TeardownEvents ==
    Events({"underlyingConn.Close", "targetConn.Close", "WebsocketConnectionClosedHook"})

HookEvent == Ev("WebsocketConnectionClosedHook", <<"req", "underlyingConn.UnderlyingConn()">>)

FullTeardown(withHook) ==
    <<Ev("underlyingConn.Close", <<>>), Ev("targetConn.Close", <<>>)>>
        \o (IF withHook THEN <<HookEvent>> ELSE <<>>)

\* C1: after a successful upgrade the teardown runs exactly once on every exit
\* path, in the order client close, backend close, hook (only if configured,
\* with the inbound request and the client's raw transport); the hook never
\* precedes the two closes, each connection is closed once, and nothing is
\* closed before the first relay result has been received.
C1_TeardownOnceInOrder ==
    LET done == TeardownEvents
    IN  /\ done # <<>> => Upgraded /\ recv.from # "none"
        /\ IsPrefix(done, FullTeardown(cfg.hook = "set"))
        /\ connState["client"] = "closed" <=> Len(done) >= 1
        /\ connState["backend"] = "closed" <=> Len(done) >= 2
        /\ (Upgraded /\ Exited) =>
               /\ cfg.hook # "unread"
               /\ done = FullTeardown(cfg.hook = "set")

\* ServeHTTP left by a panic after the relay phase, with a hook configured.
C1_Witness ==
    /\ Upgraded /\ Exited /\ panicking
    /\ TeardownEvents = FullTeardown(TRUE)

TornDown ==
    /\ Exited
    /\ \A c \in Conns : connState[c] = "closed"
    /\ cfg.hook # "unread"
    /\ Len(Events({"WebsocketConnectionClosedHook"})) = (IF cfg.hook = "set" THEN 1 ELSE 0)

\* C2: once the relay is running, a peer's closing or breaking its connection
\* leads, under fair scheduling, to both connections closed by the entry point
\* and to the hook, if configured, called exactly once.
C2_TerminationSymmetry == \A c \in Conns : peerGone[c] ~> TornDown

\* The backend went first, the client-to-backend direction reported first, and
\* the teardown has run with the hook.
C2_Witness ==
    /\ peerGone["backend"] /\ ~peerGone["client"]
    /\ recv.from = "errBackend"
    /\ TornDown /\ cfg.hook = "set"

\* The data messages among frames.
DataOf(frames) == SelectSeq(frames, IsData)

\* The frames on a connection.
FramesOn(c) == [i \in 1..Len(wire[c]) |-> wire[c][i].frame]

\* C3: in each direction the data messages written to the destination are a
\* prefix of the data messages read from the source, same order, type and
\* payload; while the direction is running none is skipped, duplicated or
\* merged.
C3_RelayOrdering ==
    \A d \in Dirs :
        LET w == DataOf(FramesOn(dst(d)))
            r == DataOf(readLog[d])
        IN  /\ IsPrefix(w, r)
            /\ Len(r) - Len(w) <= 1
            /\ pcRelay[d] = "read" => w = r

\* Two different data messages, one of them empty, relayed in one direction.
C3_Witness ==
    \E d \in Dirs :
        LET w == DataOf(FramesOn(dst(d)))
        IN  Len(w) = 2 /\ w[1] # w[2] /\ w[2].payload = <<>>

\* The close payload the claim gives for a read error e.
ClaimedPayload(e) ==
    CASE e.kind # "close" ->
            [nil |-> FALSE, hasCode |-> TRUE, code |-> CloseNormalClosure, text |-> ErrorString(e)]
      [] e.kind = "close" /\ e.code = CloseNoStatusReceived ->
            [nil |-> FALSE, hasCode |-> TRUE, code |-> CloseNormalClosure, text |-> ErrorString(e)]
      [] e.kind = "close" /\ e.code \in {CloseAbnormalClosure, CloseTLSHandshake} ->
            NilPayload
      [] OTHER ->
            [nil |-> FALSE, hasCode |-> TRUE, code |-> e.code, text |-> e.text]

CloseFramesBy(d) ==
    SelectSeq(wire[dst(d)], LAMBDA x : x.by = d /\ x.frame.mtype = CloseMessage)

\* C4: the close payload selected for a read error is the function of the
\* error the claim gives; for the abnormal-closure and TLS-handshake codes no
\* close frame is written, and no close frame on any connection carries one
\* of these two codes.
C4_CloseCodeTranslation ==
    /\ \A d \in Dirs :
        cause[d] = "read" =>
            LET closes == CloseFramesBy(d)
            IN  /\ m[d] = ClaimedPayload(rerr[d])
                /\ m[d].nil => closes = <<>>
                /\ \A i \in 1..Len(closes) :
                       closes[i].frame = CloseFrame(ClaimedPayload(rerr[d]))
    /\ \A c \in Conns : \A i \in 1..Len(wire[c]) :
        wire[c][i].frame.mtype = CloseMessage =>
            wire[c][i].frame.code \notin {CloseAbnormalClosure, CloseTLSHandshake}

\* A direction ended by a TLS-handshake close signal, and the other by a
\* normal close whose frame went out with its code and text.
C4_Witness ==
    \E d, e \in Dirs :
        /\ pcRelay[d] = "done" /\ cause[d] = "read"
        /\ rerr[d] = CloseError(CloseTLSHandshake, <<>>)
        /\ rerr[e] = CloseError(CloseNormalClosure, <<"bye">>)
        /\ Len(CloseFramesBy(e)) = 1

\* C5: when a direction's read ends with a close signal whose code is neither
\* abnormal closure nor TLS handshake, the entry point never closes the
\* destination before the relay task has forwarded the close frame.
C5_CloseFrameBeforeTeardown ==
    \A d \in Dirs :
        ( /\ cause[d] = "read"
          /\ rerr[d].kind = "close"
          /\ rerr[d].code \notin {CloseAbnormalClosure, CloseTLSHandshake}
          /\ pcRelay[d] = "forward" )
        => connState[dst(d)] # "closed"

HandlerArgs ==
    LET calls == Events({"ErrorHandler", "defaultErrorHandler"})
    IN  [i \in 1..Len(calls) |-> calls[i].arg]

CalledWith(err) == <<<<"outReq">> \o ErrorString(err)>>

\* C6: on a hard dial failure with a Logger configured the error handler is
\* called exactly once, with the dial error; nothing is hijacked, no upgrade
\* is attempted, no relay task starts, no hook is called; the default handler
\* leaves status 502 on the sink, and no body byte is ever written to it.
C6_HardDialFailure ==
    (HardFailure /\ cfg.logger = "set") =>
        /\ sink.body = <<>>
        /\ Events({"Hijack", "Upgrade", "WebsocketConnectionClosedHook", "rw.Write"}) = <<>>
        /\ \A d \in Dirs : pcRelay[d] = "idle"
        /\ Exited =>
            /\ ~panicking
            /\ HandlerArgs = CalledWith(ErrDial)
            /\ cfg.errorHandler = "nil" => sink = [status |-> StatusBadGateway, body |-> <<>>]

\* A hard dial failure handled by the default error handler.
C6_Witness ==
    /\ HardFailure /\ Exited /\ cfg.logger = "set" /\ cfg.errorHandler = "nil"
    /\ sink.status = StatusBadGateway

StreamCloses == Len(Events({"conn.Close"}))

\* The hijacked stream was closed once, after the write to it.
ClosedOnceAfterWrite ==
    /\ StreamCloses = 1
    /\ \E i, j \in 1..Len(trace) :
        i < j /\ trace[i].ev = "resp.Write" /\ trace[j].ev = "conn.Close"

\* C7: on a soft dial failure with a Logger configured no upgrade is tried, no
\* relay starts, the request ends, and exactly one of: (a) no hijacker, one
\* handler call with the dial error; (b) hijack fails, one handler call with
\* the hijack error; (c) response written, no handler call, stream closed
\* once after the write; (d) write fails, one handler call with the write
\* error, stream closed once.
C7_SoftDialFailure ==
    (SoftFailure /\ cfg.logger = "set") =>
        /\ Events({"Upgrade"}) = <<>>
        /\ \A d \in Dirs : pcRelay[d] = "idle"
        /\ Exited =>
            LET hijacks == Events({"Hijack"})
                writes == Events({"resp.Write"})
                a == /\ hijacks = <<>> /\ writes = <<>>
                     /\ HandlerArgs = CalledWith(ErrDial)
                     /\ StreamCloses = 0
                b == /\ hijacks = <<Ev("Hijack", <<"error">>)>> /\ writes = <<>>
                     /\ HandlerArgs = CalledWith(ErrHijack)
                     /\ StreamCloses = 0
                c == /\ hijacks = <<Ev("Hijack", <<"ok">>)>>
                     /\ writes = <<Ev("resp.Write", <<"ok">>)>>
                     /\ HandlerArgs = <<>>
                     /\ ClosedOnceAfterWrite
                dd == /\ hijacks = <<Ev("Hijack", <<"ok">>)>>
                      /\ writes = <<Ev("resp.Write", <<"error">>)>>
                      /\ HandlerArgs = CalledWith(ErrRespWrite)
                      /\ ClosedOnceAfterWrite
            IN  /\ ~panicking
                /\ Cardinality({x \in {"a", "b", "c", "d"} :
                       \/ x = "a" /\ a
                       \/ x = "b" /\ b
                       \/ x = "c" /\ c
                       \/ x = "d" /\ dd}) = 1

\* A soft dial failure whose response could not be written to the stream.
C7_Witness ==
    /\ SoftFailure /\ Exited /\ cfg.logger = "set"
    /\ Happened(Ev("resp.Write", <<"error">>))
    /\ StreamCloses = 1

\* C8: the header set passed to the dial call holds no name of the WebSocket
\* Dial Header List, whatever values the inbound request or the Director gave
\* those headers.
C8_DialHeadersStripped ==
    hpc = "dialed" => DOMAIN dialHeader \cap Range(WebsocketDialHeaders) = {}

\* C9: no hop-by-hop header the client sent is in the header set passed to the
\* dial call.
C9_NoClientHopHeaderDialled ==
    hpc = "dialed" =>
        \A k \in Range(hopHeaders) : k \in DOMAIN reqHeader => k \notin DOMAIN dialHeader

\* The names the directives of the backend's Connection header list.
DirectiveNames ==
    LET fields == Split(Get(backendHeader, "Connection"))
    IN  { CanonicalHeaderKey(TrimSpace(fields[i])[1]) :
          i \in {j \in 1..Len(fields) : Len(TrimSpace(fields[j])) = 1} }

\* C10: after the stripping step and before the merge no name of the static
\* hop-by-hop list is in the backend's header set, whatever its values; the
\* backend's other headers are unchanged; the merge appends every value of
\* every sink header and removes nothing.
C10_StaticHopHeadersStripped ==
    /\ hpc = "merge" =>
        /\ DOMAIN respHeader \cap Range(hopHeaders) = {}
        /\ \A k \in DOMAIN backendHeader \ (Range(hopHeaders) \cup DirectiveNames) :
               k \in DOMAIN respHeader /\ respHeader[k] = backendHeader[k]
    /\ hpc = "upgraded" =>
        \A k \in DOMAIN sinkHeader :
            /\ k \in DOMAIN upgradeHeader
            /\ Len(upgradeHeader[k]) >= Len(sinkHeader[k])
            /\ SubSeq(upgradeHeader[k], Len(upgradeHeader[k]) - Len(sinkHeader[k]) + 1,
                      Len(upgradeHeader[k])) = sinkHeader[k]

\* The single-word directives of one value of a Connection header, canonical.
DirectivesOf(value) ==
    LET fields == Split(value)
    IN  { CanonicalHeaderKey(TrimSpace(fields[i])[1]) :
          i \in {j \in 1..Len(fields) : Len(TrimSpace(fields[j])) = 1} }

\* The names listed by the directives of every value of the backend's
\* Connection header.
AllDirectiveNames ==
    IF "Connection" \in DOMAIN backendHeader
    THEN UNION { DirectivesOf(backendHeader["Connection"][i]) :
                 i \in 1..Len(backendHeader["Connection"]) }
    ELSE {}

\* C11: after the stripping, no header named by a directive of any value of
\* the backend's Connection header is left, in the static list or not, and
\* the headers neither named by a directive nor in the static list are as the
\* backend sent them.
C11_ConnectionDirectivesRemoved ==
    hpc = "merge" =>
        /\ \A k \in AllDirectiveNames : k \notin DOMAIN respHeader
        /\ \A k \in DOMAIN backendHeader \ (Range(hopHeaders) \cup AllDirectiveNames) :
               k \in DOMAIN respHeader /\ respHeader[k] = backendHeader[k]

\* The lines logged about a relay result.
RelayLogLines ==
    SelectSeq(trace, LAMBDA e :
        /\ e.ev \in {"Logger.Printf", "log.Printf"}
        /\ e.arg[1] \in {Message(d) : d \in Dirs})

\* The first relay result has been received and the decision to log it taken.
ResultHandled == recv.from # "none" /\ pcMain # "log"

\* The one line a logged result leaves: the format of the direction it came
\* from and the error's text, on the configured or the process-wide logger.
LineFor(r) ==
    Ev(IF cfg.logger = "set" THEN "Logger.Printf" ELSE "log.Printf",
       <<Message(r.from)>> \o ErrorString(r.err))

C13_NilLoggerContinues ==
    /\ ~panicking
    /\ (HardFailure /\ Exited /\ cfg.logger = "nil" /\ cfg.errorHandler # "set") =>
           /\ Len(Events({"defaultErrorHandler"})) = 1
           /\ sink.status = StatusBadGateway

\* The Director has run and the dial headers have been stripped.
OutReqBuilt == hpc \in {"dial", "dialed"}

\* C14: once the Director has been applied and the dial headers stripped, the
\* inbound request is as the caller passed it: its header set, and the
\* scheme, host, path and query of its URL.
C14_InboundRequestUnchanged ==
    OutReqBuilt =>
        /\ reqHeader = entry.Header
        /\ urls[URL.req] = entry.URL

StripTrailingSlash(a) == IF HasSuffixSlash(a) THEN SubSeq(a, 1, Len(a) - 1) ELSE a

StripLeadingSlash(b) == IF HasPrefixSlash(b) THEN Tail(b) ELSE b

\* The join the claim describes.
JoinedWithOneSlash(a, b) == StripTrailingSlash(a) \o <<"/">> \o StripLeadingSlash(b)

\* The path of the outbound request's URL.
OutPath == urls[URL.outReq].Path

\* C15: the path the single-host Director gives the outbound request is the
\* target's path without its one trailing slash, one "/", and the request's
\* path without its one leading slash, for every pair of paths, empty ones and
\* ones with several slashes at the boundary included; "/a/" or "/a" joined
\* with "/b" or "b" is "/a/b".
C15_SingleJoiningSlash ==
    hpc \notin {"copy", "director"} =>
        LET a == director.target.Path
            b == entry.URL.Path
            n == Len(StripTrailingSlash(a))
        IN  /\ OutPath = JoinedWithOneSlash(a, b)
            /\ SubSeq(OutPath, 1, n) = StripTrailingSlash(a)
            /\ OutPath[n + 1] = "/"
            /\ SubSeq(OutPath, n + 2, Len(OutPath)) = StripLeadingSlash(b)
            /\ (a \in {<<"/", "a", "/">>, <<"/", "a">>} /\ b \in {<<"/", "b">>, <<"b">>})
                   => OutPath = <<"/", "a", "/", "b">>

\* "/a/" and "/b" joined to "/a/b" and dialled.
C15_Witness ==
    /\ hpc = "dialed"
    /\ director.target.Path = <<"/", "a", "/">>
    /\ entry.URL.Path = <<"/", "b">>
    /\ OutPath = <<"/", "a", "/", "b">>

\* The value a relay task sent on its channel: still in the buffer, or
\* received by the select.
Reported(d) ==
    IF errc[d] # <<>> THEN errc[d]
    ELSE IF recv.from = d THEN <<recv.err>>
    ELSE <<>>

\* Each relay task sends one value in its lifetime, and its send finds the
\* buffer free.
OneSendNeverBlocked ==
    \A d \in Dirs :
        /\ sends[d] <= 1
        /\ Len(Reported(d)) = sends[d]
        /\ pcRelay[d] \in {"idle", "read", "report"} => sends[d] = 0
        /\ pcRelay[d] = "report" => Len(errc[d]) < ChanCap
        /\ pcRelay[d] = "done" => sends[d] = 1 /\ cause[d] \in {"read", "forward"}
        /\ (pcRelay[d] = "forward" /\ cur[d].mtype = CloseMessage) => sends[d] = 1
        /\ (pcRelay[d] = "forward" /\ cur[d].mtype # CloseMessage) => sends[d] = 0

BothClosed == \A c \in Conns : connState[c] = "closed"

BothDone == \A d \in Dirs : pcRelay[d] = "done"

\* C16: each relay direction sends exactly one value on its own channel, on
\* the read-error path and on the forward-error path, and the send never
\* waits, whether or not the entry point ever receives from that channel; once
\* the teardown has closed both connections both relay tasks reach their
\* terminal state.
C16_RelayTermination == []OneSendNeverBlocked /\ (BothClosed ~> BothDone)

\* Both tasks have ended, one on a read error and one on a forward error; the
\* entry point has returned having received from one channel only, and the
\* other task's value is still in its channel.
C16_Witness ==
    /\ BothDone /\ Exited
    /\ \E d, e \in Dirs :
        /\ cause[d] = "forward" /\ cause[e] = "read"
        /\ recv.from = d
        /\ Len(errc[e]) = 1

\* The task the program starts to write to each connection.
WriterOf(c) == IF c = "backend" THEN "errBackend" ELSE "errClient"

\* The relay tasks that are writing a frame to a connection.
Writing(c) == {d \in Dirs : pcRelay[d] = "forward" /\ dst(d) = c}

\* C17: at most one task is writing to a connection at a time; every frame
\* on the backend connection was written by the client-to-backend task and
\* every frame on the client connection by the backend-to-client task, so
\* none by the entry point.
C17_SingleWriter ==
    /\ \A d, e \in Dirs :
        (pcRelay[d] = "forward" /\ pcRelay[e] = "forward" /\ dst(d) = dst(e)) => d = e
    /\ \A d \in Dirs : pcRelay[d] = "forward" => d = WriterOf(dst(d))
    /\ \A c \in Conns : \A i \in 1..Len(wire[c]) : wire[c][i].by = WriterOf(c)

\* Both tasks writing at once, a ping towards one connection and a data
\* message towards the other.
C17_Witness ==
    /\ Writing("client") = {"errClient"} /\ Writing("backend") = {"errBackend"}
    /\ IsControl(cur["errClient"]) /\ IsData(cur["errBackend"])

\* The frames a direction has put on its destination, close frames aside.
Relayed(d) ==
    LET w == SelectSeq(wire[dst(d)], LAMBDA x : x.by = d /\ x.frame.mtype # CloseMessage)
    IN  [i \in 1..Len(w) |-> w[i].frame]

\* The forwarding of a ping or a pong failed in direction d.
ControlForwardFailed(d) == cause[d] = "read" /\ rerr[d] \in ForwardErrors

\* C18: the pings, pongs and data messages a direction has written to its
\* destination are the ones it read from its source, in the order read, each
\* once, with its type and payload; the direction writes nothing to its
\* source; when the forwarding of a ping or a pong fails the direction stops
\* relaying and reports that one error.
C18_ControlFramesPassThrough ==
    \A d \in Dirs :
        LET relayed == Relayed(d)
        IN
        /\ IsPrefix(relayed, readLog[d])
        /\ Len(readLog[d]) - Len(relayed) <= 1
        /\ pcRelay[d] = "read" => relayed = readLog[d]
        /\ \A i \in 1..Len(wire[src(d)]) : wire[src(d)][i].by # d
        /\ ControlForwardFailed(d) =>
            /\ IsControl(readLog[d][Len(readLog[d])])
            /\ relayed = SubSeq(readLog[d], 1, Len(readLog[d]) - 1)
            /\ pcRelay[d] \in {"report", "forward", "done"}
            /\ pcRelay[d] = "forward" => cur[d].mtype = CloseMessage
            /\ pcRelay[d] # "report" => Reported(d) = <<rerr[d]>>

\* A data message, then a ping with its payload, relayed in one direction in
\* that order.
C18_Witness ==
    \E d \in Dirs :
        /\ Len(Relayed(d)) = 2
        /\ IsData(Relayed(d)[1])
        /\ Relayed(d)[2] = Frame(PingMessage, <<"x">>)

\* The backend connection a successful dial returned.
Dialled == Happened(Ev("DialContext", <<"ok">>))

\* C19: when ServeHTTP ends after a successful dial, the backend connection
\* has been closed, on every exit path.
C19_BackendConnClosed ==
    (Dialled /\ Exited) => connState["backend"] = "closed"

\* The close frames a direction has written, on either connection.
CloseFramesWrittenBy(d) ==
    UNION { { <<c, i>> : i \in { j \in 1..Len(wire[c]) :
                                  /\ wire[c][j].by = d
                                  /\ wire[c][j].frame.mtype = CloseMessage } } :
            c \in Conns }

\* C20: a direction ended by the failure of forwarding a data message reports
\* the error forward returned, writes no close frame to either connection and
\* forwards nothing after the failed message; a direction that has written a
\* close frame ended on a read error.
C20_WriteFailureTermination ==
    \A d \in Dirs :
        /\ cause[d] = "forward" =>
            /\ IsData(readLog[d][Len(readLog[d])])
            /\ rerr[d] \in ForwardErrors
            /\ m[d].nil
            /\ CloseFramesWrittenBy(d) = {}
            /\ pcRelay[d] \in {"report", "done"}
            /\ pcRelay[d] = "done" => Reported(d) = <<rerr[d]>>
            /\ Relayed(d) = SubSeq(readLog[d], 1, Len(readLog[d]) - 1)
        /\ CloseFramesWrittenBy(d) # {} => cause[d] = "read"

\* A direction that relayed one message, failed to forward the next, reported
\* the error of the copy and ended, the select having received it.
C20_Witness ==
    \E d \in Dirs :
        /\ cause[d] = "forward" /\ pcRelay[d] = "done"
        /\ Len(Relayed(d)) = 1
        /\ recv = [from |-> d, err |-> OtherError(<<"io.Copy failed">>)]

====
